---------------------------- MODULE Spec2Model ----------------------------
(***************************************************************************)
(* A model of EntitySerializer (src/src/entity-serializer.ts): the         *)
(* converter chain, the injector, alias and resolver registries, and the   *)
(* serialize / deserialize operations over a small heap of entities.       *)
(***************************************************************************)
EXTENDS Integers, Sequences, FiniteSets, TLC

VARIABLES
    propertyConverters,   \* _propertyConverters: PropertyConverter[]
    propertyInjectors,    \* _propertyInjectors: Map<Type | string, PropertyInjector[]>
    propertyAliases,      \* _propertyAliases: Map<Type | string, ObjectLookup<string>>
    valueResolvers,       \* _valueResolvers: AsyncValueResolver[]
    heap,                 \* the entity instances (owned by the application)
    pool,                 \* the instances the types' lookup get(id) knows
    registered,           \* history: the converters in registration order
    injectorLog,          \* history: the registerPropertyInjector calls in order
    aliasLog,             \* history: the registerPropertyAlias calls in order
    resolverLog,          \* history: the resolvers in registration order
    ret                   \* history: the last call, its arguments and its outcome

vars == <<propertyConverters, propertyInjectors, propertyAliases, valueResolvers,
          heap, pool, registered, injectorLog, aliasLog, resolverLog, ret>>

(***************************************************************************)
(* Bounds of the model.                                                    *)
(***************************************************************************)
MaxConverters == 2
MaxInjectors == 2
MaxAliases == 2
MaxResolvers == 3
MaxHeap == 4

(***************************************************************************)
(* JavaScript values.  Each kind of value is a record of its own shape.    *)
(***************************************************************************)
Null == [t |-> "null"]
Undefined == [t |-> "undefined"]
Str(s) == [t |-> "string", s |-> s]
Num(n) == [t |-> "number", n |-> n]
Arr(items) == [t |-> "array", items |-> items]
Obj(pairs) == [t |-> "object", pairs |-> pairs]
Ent(r) == [t |-> "entity", ref |-> r]
Promise(v) == [t |-> "promise", of |-> v]

\* A PropertySerializationResult literal { key, value }.
Pair(k, v) == [key |-> k, value |-> v, obj |-> "literal"]

\* The one IgnoreProperty object; the code compares against it by identity.
IgnoreProperty == [key |-> "ignore", value |-> Str("ignore"), obj |-> "IgnoreProperty"]

\* What a throwing call leaves instead of a value.
Throw(e) == [t |-> "throw", error |-> e]
IsThrow(v) == "error" \in DOMAIN v

IsArray(v) == "items" \in DOMAIN v
IsString(v) == "s" \in DOMAIN v
IsEntity(v) == "ref" \in DOMAIN v
IsPlainObject(v) == "pairs" \in DOMAIN v

\* JavaScript truthiness: if (v).
Truthy(v) ==
    IF "t" \notin DOMAIN v THEN TRUE
    ELSE IF v.t \in {"null", "undefined"} THEN FALSE
    ELSE IF v.t = "string" THEN v.s # ""
    ELSE IF v.t = "number" THEN v.n # 0
    ELSE TRUE

\* v instanceof Object.
InstanceOfObject(v) == "t" \notin DOMAIN v \/ v.t \in {"array", "object", "entity", "promise"}

\* state[key] on a value: a plain object's first entry under the key, else undefined.
GetKey(state, key) ==
    IF IsPlainObject(state) /\ \E i \in 1..Len(state.pairs) : state.pairs[i].key = key
    THEN state.pairs[CHOOSE i \in 1..Len(state.pairs) : state.pairs[i].key = key].value
    ELSE Undefined

Min(S) == CHOOSE x \in S : \A y \in S : x <= y
Max(S) == CHOOSE x \in S : \A y \in S : x >= y

(***************************************************************************)
(* The type system the serializer consumes (./type, ./property).           *)
(***************************************************************************)
NoType == "(none)"
Types == {"Base", "Person", "Employee"}

baseType(t) ==
    CASE t = "Employee" -> "Person"
      [] t = "Person" -> "Base"
      [] OTHER -> NoType

fullName(t) ==
    CASE t = "Employee" -> "App.Employee"
      [] t = "Person" -> "App.Person"
      [] OTHER -> "App.Base"

\* A Property descriptor.
Prop(n, pt, ent, list, calc, const, fmt) ==
    [name |-> n, propertyType |-> pt, isEntity |-> ent, isList |-> list,
     isCalculated |-> calc, isConstant |-> const, format |-> fmt,
     containingType |-> "Person"]

\* type.properties, in declared order (the same for Person and Employee).
properties(t) ==
    IF t = "Base" THEN << >>
    ELSE << Prop("id", "String", FALSE, FALSE, FALSE, FALSE, FALSE),
            Prop("name", "String", FALSE, FALSE, FALSE, FALSE, TRUE),
            Prop("age", "Number", FALSE, FALSE, FALSE, FALSE, TRUE),
            Prop("tags", "String", FALSE, TRUE, FALSE, FALSE, FALSE),
            Prop("manager", "Person", TRUE, FALSE, FALSE, FALSE, FALSE),
            Prop("reports", "Person", TRUE, TRUE, FALSE, FALSE, FALSE),
            Prop("label", "String", FALSE, FALSE, TRUE, FALSE, FALSE),
            Prop("species", "String", FALSE, FALSE, FALSE, TRUE, FALSE) >>

PropNames == {"id", "name", "age", "tags", "manager", "reports", "label", "species"}

\* type.getProperty(name).
getProperty(t, n) ==
    LET ps == properties(t)
    IN IF \E i \in 1..Len(ps) : ps[i].name = n
       THEN ps[CHOOSE i \in 1..Len(ps) : ps[i].name = n]
       ELSE Null

\* type.meta.identifier: the identifier property's name, if the type declares one.
identifier(t) == IF t = "Base" THEN Null ELSE Str("id")

\* The types from t up its base-type chain, t first.
RECURSIVE TypeChain(_)
TypeChain(t) == IF t = NoType THEN << >> ELSE <<t>> \o TypeChain(baseType(t))

\* v instanceof T, for an entity class T.
InstanceOf(h, v, T) ==
    IsEntity(v) /\ \E i \in 1..Len(TypeChain(h[v.ref].type)) : TypeChain(h[v.ref].type)[i] = T

\* prop.value(entity).
PropValue(h, e, p) == h[e].fields[p.name]

\* property.format.convertFromString(text), for the Number format.
convertFromString(data) ==
    CASE data.s = "0" -> Num(0)
      [] data.s = "7" -> Num(7)
      [] data.s = "41" -> Num(41)
      [] OTHER -> Null

\* data.constructor, as the name of the class.
ConstructorOf(data) ==
    CASE data.t = "string" -> "String"
      [] data.t = "number" -> "Number"
      [] data.t = "array" -> "Array"
      [] OTHER -> "Object"


(***************************************************************************)
(* The plug-ins the application registers.  Each name stands for one       *)
(* object implementing the interface; its methods are given by cases.      *)
(***************************************************************************)
Converters == {"Base", "Secret", "Stamp", "Flat", "Void", "Never"}
Injectors == {"TypeTag", "Audit", "Clash"}
Resolvers == {"Cache", "Remote", "Skip"}

\* An entry of a serialized object: result[pair.key] = pair.value.
Entry(k, v) == [key |-> k, value |-> v]

\* The first thrown error of a sequence of outcomes evaluated in order.
HasThrow(rs) == \E i \in 1..Len(rs) : IsThrow(rs[i])
FirstThrow(rs) == rs[Min({i \in 1..Len(rs) : IsThrow(rs[i])})]

\* converter.shouldConvert(context, prop).
shouldConvert(c, h, context, prop) ==
    CASE c = "Base" -> TRUE
      [] c = "Secret" -> prop.name \in {"name", "age", "manager"}
      [] c = "Stamp" -> ~prop.isEntity /\ ~prop.isList /\ h[context].type = "Person"
      [] c = "Flat" -> prop.name \in {"name", "tags"}
      [] c = "Void" -> prop.name = "age"
      [] OTHER -> FALSE

\* injector.inject(entity).
inject(i, h, entity) ==
    CASE i = "TypeTag" -> << Pair("$type", Str(fullName(h[entity].type))) >>
      [] i = "Audit" -> << Pair("$rev", Num(1)), IgnoreProperty, Null >>
      [] OTHER -> << Pair("name", Str("injected")) >>

\* resolve(context, property, value): a pending result, or nothing.
resolve(r, h, context, property, value) ==
    CASE r = "Cache" -> IF property.name = "name" THEN Promise(Str("cached")) ELSE Undefined
      [] r = "Remote" -> IF Truthy(value) THEN Promise(value) ELSE Undefined
      [] OTHER -> Undefined

\* Keys of the registries: a Type object, or a string.
TypeHandle(t) == <<"type", t>>
NameHandle(s) == <<"string", s>>
Handles == {TypeHandle(t) : t \in Types} \cup {NameHandle(fullName(t)) : t \in Types}

EmptyMap == [k \in {} |-> << >>]
MapSet(m, k, v) == [x \in DOMAIN m \cup {k} |-> IF x = k THEN v ELSE m[x]]

\* this._propertyInjectors.get(key) || [].
InjectorsAt(key) == IF key \in DOMAIN propertyInjectors THEN propertyInjectors[key] ELSE << >>

\* this._propertyAliases.get(key) || {}.
AliasesAt(key) == IF key \in DOMAIN propertyAliases THEN propertyAliases[key] ELSE EmptyMap

ObjectAssign_first(a, b) ==
    [k \in DOMAIN a \cup DOMAIN b |-> IF k \in DOMAIN a THEN a[k] ELSE b[k]]

\* Object.assign({}, a, b).
ObjectAssign(a, b) ==
    [k \in DOMAIN a \cup DOMAIN b |-> IF k \in DOMAIN b THEN b[k] ELSE a[k]]

getPropertyAliases(type) ==
    ObjectAssign(AliasesAt(TypeHandle(type)), AliasesAt(NameHandle(fullName(type))))

getInjectorsOrDefault(type) ==
    InjectorsAt(TypeHandle(type)) \o InjectorsAt(NameHandle(fullName(type)))

RECURSIVE getPropertyInjectors_baseFirst(_)
getPropertyInjectors_baseFirst(type) ==
    (IF baseType(type) # NoType THEN getPropertyInjectors_baseFirst(baseType(type)) ELSE << >>)
        \o getInjectorsOrDefault(type)

RECURSIVE getPropertyInjectors(_)
getPropertyInjectors(type) ==
    getInjectorsOrDefault(type) \o
        (IF baseType(type) # NoType THEN getPropertyInjectors(baseType(type)) ELSE << >>)

\* Array.prototype.flatMap over the injectors.
RECURSIVE FlatMapInject(_, _, _)
FlatMapInject(is, h, entity) ==
    IF is = << >> THEN << >>
    ELSE inject(Head(is), h, entity) \o FlatMapInject(Tail(is), h, entity)

RECURSIVE WritePairs_overwrite(_, _)
WritePairs_overwrite(result, pairs) ==
    IF pairs = << >> THEN Obj(result)
    ELSE LET pair == Head(pairs)
             Other(e) == e.key # pair.key
         IN IF Truthy(pair) /\ pair # IgnoreProperty
            THEN WritePairs_overwrite(
                    Append(SelectSeq(result, Other), Entry(pair.key, pair.value)), Tail(pairs))
            ELSE WritePairs_overwrite(result, Tail(pairs))

\* The forEach of serialize: write each pair, throw on a key already written.
RECURSIVE WritePairs(_, _)
WritePairs(result, pairs) ==
    IF pairs = << >> THEN Obj(result)
    ELSE LET pair == Head(pairs)
         IN IF Truthy(pair) /\ pair # IgnoreProperty
            THEN IF \E i \in 1..Len(result) : result[i].key = pair.key
                 THEN Throw("Error: encountered twice")
                 ELSE WritePairs(Append(result, Entry(pair.key, pair.value)), Tail(pairs))
            ELSE WritePairs(result, Tail(pairs))

RECURSIVE Serialize(_, _, _, _)
RECURSIVE DefaultSerialize(_, _, _, _, _, _)
RECURSIVE MapSerialize(_, _, _, _)
RECURSIVE MapProperties(_, _, _, _, _)
RECURSIVE TryConverters(_, _, _, _, _, _, _, _)
RECURSIVE EntitySerialize(_, _, _, _)
RECURSIVE ConvSerialize(_, _, _, _, _, _, _)
RECURSIVE serializePropertyValue(_, _, _, _, _, _)

\* ent.serialize(settings) of Entity: the serializer's serialize of the entity.
EntitySerialize(h, value, settings, stack) ==
    IF IsEntity(value) THEN Serialize(h, value.ref, settings, stack)
    ELSE Throw("TypeError: serialize is not a function")

\* One step of Array.prototype.map: the callback's result r before the results
\* for the rest of the array, or the first error thrown, which ends the map.
PrependResult(r, rest) ==
    IF IsThrow(r) THEN r
    ELSE IF IsThrow(rest) THEN rest
    ELSE Arr(<< r >> \o rest.items)

\* value.map((ent: Entity) => ent.serialize(settings)).
MapSerialize(h, items, settings, stack) ==
    IF items = << >> THEN Arr(<< >>)
    ELSE PrependResult(EntitySerialize(h, Head(items), settings, stack),
                       MapSerialize(h, Tail(items), settings, stack))

\* result.value = r, unless computing r threw.
PairOrThrow(key, r) == IF IsThrow(r) THEN r ELSE Pair(key, r)

\* PropertyConverter.serialize: the default conversion.
DefaultSerialize(h, context, value, property, settings, stack) ==
    IF Truthy(value)
    THEN IF property.isEntity
         THEN IF property.isList /\ IsArray(value)
              THEN PairOrThrow(property.name, MapSerialize(h, value.items, settings, stack))
              ELSE PairOrThrow(property.name, EntitySerialize(h, value, settings, stack))
         ELSE IF property.isList
              THEN IF IsArray(value) \/ IsString(value)
                   THEN Pair(property.name, value)
                   ELSE Throw("TypeError: slice is not a function")
              ELSE Pair(property.name, value)
    ELSE Pair(property.name, value)

\* converter.serialize(context, value, property, settings).
ConvSerialize(c, h, context, value, property, settings, stack) ==
    CASE c = "Secret" -> IgnoreProperty
      [] c = "Stamp" -> Pair(property.name, Obj(<< Entry("stamp", value) >>))
      [] c = "Flat" -> Pair("data", value)
      [] c = "Void" -> Undefined
      [] OTHER -> DefaultSerialize(h, context, value, property, settings, stack)

\* converter.deserialize(context, value, property).
ConvDeserialize(c, context, value, property) ==
    CASE c = "Secret" -> IgnoreProperty
      [] c = "Stamp" -> GetKey(value, "stamp")
      [] OTHER -> value

\* The body of the for loop of serializePropertyValue for converter c, whose
\* serialize gave res: return it if it is accepted, else go on with the rest.
Accept(res, c, settings, rest) ==
    IF IsThrow(res) \/ ~settings.force \/ res # IgnoreProperty
    THEN [res |-> res, calls |-> << c >>]
    ELSE [res |-> rest.res, calls |-> << c >> \o rest.calls]

\* The for loop of serializePropertyValue over the filtered converters, from the
\* i-th on; calls lists the converters whose serialize ran.
TryConverters(converters, i, h, entity, value, property, settings, stack) ==
    IF i > Len(converters)
    THEN [res |-> DefaultSerialize(h, entity, value, property, settings, stack),
          calls |-> << >>]
    ELSE Accept(ConvSerialize(converters[i], h, entity, value, property, settings, stack),
                converters[i], settings,
                TryConverters(converters, i + 1, h, entity, value, property, settings, stack))

\* this._propertyConverters.filter(c => c.shouldConvert(entity, property)).
FilterConverters(chain, h, entity, property) ==
    LET Test(c) == shouldConvert(c, h, entity, property)
    IN SelectSeq(chain, Test)

ApplyAlias_byResultKey(result, property, settings) ==
    IF ~IsThrow(result) /\ Truthy(result) /\ result # IgnoreProperty /\ settings.useAliases
    THEN LET aliases == getPropertyAliases(property.containingType)
         IN IF result.key \in DOMAIN aliases /\ aliases[result.key] # ""
            THEN [result EXCEPT !.key = aliases[result.key]]
            ELSE result
    ELSE result

\* The alias step of serializePropertyValue.
ApplyAlias(result, property, settings) ==
    IF ~IsThrow(result) /\ Truthy(result) /\ result # IgnoreProperty /\ settings.useAliases
    THEN LET aliases == getPropertyAliases(property.containingType)
         IN IF property.name \in DOMAIN aliases /\ aliases[property.name] # ""
            THEN [result EXCEPT !.key = aliases[property.name]]
            ELSE result
    ELSE result

\* The end of serializePropertyValue: selected is the result before the alias
\* step.
Aliased(tried, property, settings) ==
    [result |-> ApplyAlias(tried.res, property, settings),
     selected |-> tried.res,
     calls |-> tried.calls]

\* serializePropertyValue(entity, property, value, settings).
serializePropertyValue(h, entity, property, value, settings, stack) ==
    Aliased(TryConverters(FilterConverters(propertyConverters, h, entity, property), 1,
                          h, entity, value, property, settings, stack),
            property, settings)

\* type.properties.filter(p => !p.isCalculated && !p.isConstant)
SerializedProperties(type) ==
    LET Test(p) == ~p.isCalculated /\ ~p.isConstant
    IN SelectSeq(properties(type), Test)

\* .map(prop => this.serializePropertyValue(entity, prop, prop.value(entity),
\* settings)): the results, or the first error thrown, which ends the map.
MapProperties(h, entity, props, settings, stack) ==
    IF props = << >> THEN Arr(<< >>)
    ELSE PrependResult(serializePropertyValue(h, entity, Head(props),
                           PropValue(h, entity, Head(props)), settings, stack).result,
                       MapProperties(h, entity, Tail(props), settings, stack))

\* The forEach of serialize over the injected pairs and then the properties'
\* pairs, unless computing the latter threw.
WriteAll(injected, modelled) ==
    IF IsThrow(modelled) THEN modelled
    ELSE WritePairs(<< >>, injected \o modelled.items)

\* serialize(entity, settings): the object, or the error thrown.  The stack lists
\* the entities whose serialize calls are in progress.  A call for an entity that
\* is already on the stack repeats the call it is nested in, step for step, and so
\* nests without end: the engine ends it with RangeError.
Serialize(h, entity, settings, stack) ==
    IF \E i \in 1..Len(stack) : stack[i] = entity
    THEN Throw("RangeError: Maximum call stack size exceeded")
    ELSE WriteAll(FlatMapInject(getPropertyInjectors(h[entity].type), h, entity),
                  MapProperties(h, entity, SerializedProperties(h[entity].type), settings,
                                Append(stack, entity)))

(***************************************************************************)
(* Deserialization.  A world w is the heap and the lookup pool; an outcome *)
(* is the value, the world after the call, and the calls made of          *)
(* converters' deserialize (which converter, for which instance and        *)
(* property).                                                              *)
(***************************************************************************)
World(h, pl) == [heap |-> h, pool |-> pl]
Outcome(v, w, calls) == [value |-> v, w |-> w, calls |-> calls]

FindConverter_last(chain, h, instance, property) ==
    LET hits == {i \in 1..Len(chain) : shouldConvert(chain[i], h, instance, property)}
    IN IF hits = {} THEN Undefined ELSE Str(chain[Max(hits)])

\* this._propertyConverters.find(c => c.shouldConvert(instance, property)).
FindConverter(chain, h, instance, property) ==
    LET hits == {i \in 1..Len(chain) : shouldConvert(chain[i], h, instance, property)}
    IN IF hits = {} THEN Undefined ELSE Str(chain[Min(hits)])

\* type.meta.get(id): the pooled instance of the type with that id, if any.
get(w, type, id) ==
    LET hits == {r \in w.pool : w.heap[r].id = id /\ InstanceOf(w.heap, Ent(r), type)}
    IN IF hits = {} THEN Undefined ELSE Ent(Min(hits))

\* The fields a new instance starts with.
DefaultFields(type) ==
    [n \in PropNames |->
        IF getProperty(type, n) # Null /\ getProperty(type, n).isList
        THEN Arr(<< >>) ELSE Null]

NeedsFormat_anyString(property, data) ==
    property.format /\ Truthy(data) /\ IsString(data)

\* The test of deserialize for a value to convert from a string.
NeedsFormat(property, data) ==
    /\ property.format
    /\ Truthy(data)
    /\ IsString(data)
    /\ ConstructorOf(data) # property.propertyType

RECURSIVE Deserialize(_, _, _, _, _, _)
RECURSIVE ByShape(_, _, _, _, _, _)
RECURSIVE InitFields(_, _, _, _, _)
RECURSIVE MapResolve(_, _, _, _, _)
RECURSIVE MapDeserialize(_, _, _, _, _)
RECURSIVE Construct(_, _, _, _, _)
RECURSIVE resolveEntity(_, _, _, _)
RECURSIVE InitRest(_, _, _, _, _)
RECURSIVE ResolveRest(_, _, _, _, _)
RECURSIVE DeserializeRest(_, _, _, _, _)
RECURSIVE Converted(_, _, _, _, _, _, _)

\* An outcome, after the calls made before it.
AfterCalls(calls, out) == Outcome(out.value, out.w, calls \o out.calls)

\* The world with a new instance of the type, pooled under a given id.
NewInstance(w, type, id, context) ==
    World(Append(w.heap, [type |-> type, id |-> IF Truthy(id) THEN id ELSE Null,
                          fields |-> DefaultFields(type), context |-> context]),
          IF Truthy(id) THEN w.pool \cup {Len(w.heap) + 1} ELSE w.pool)

\* new type(id, state, context): the Entity constructor.  It pools the instance
\* under a given id and sets each property the state holds a value for.
Construct(w, type, id, state, context) ==
    [InitFields(NewInstance(w, type, id, context), Len(w.heap) + 1,
                IF IsPlainObject(state) THEN state.pairs ELSE << >>, context, << >>)
        EXCEPT !.value = Ent(Len(w.heap) + 1)]

\* The world after the constructor set a property to the value d that
\* deserialize produced for it, if it produced one.
SetField(d, ref, key) ==
    World(IF d.value = Undefined THEN d.w.heap
          ELSE [d.w.heap EXCEPT ![ref].fields[key] = d.value],
          d.w.pool)

\* The constructor's loop over the entries of the state.
InitFields(w, ref, entries, context, calls) ==
    IF entries = << >> THEN Outcome(Undefined, w, calls)
    ELSE IF \/ getProperty(w.heap[ref].type, Head(entries).key) = Null
            \/ getProperty(w.heap[ref].type, Head(entries).key).isCalculated
            \/ getProperty(w.heap[ref].type, Head(entries).key).isConstant
    THEN InitFields(w, ref, Tail(entries), context, calls)
    ELSE InitRest(Deserialize(w, ref, Head(entries).value,
                              getProperty(w.heap[ref].type, Head(entries).key),
                              context, TRUE),
                  ref, entries, context, calls)

\* resolveEntity(type, state) of deserialize.
resolveEntity(w, type, state, context) ==
    LET id == IF Truthy(identifier(type)) THEN GetKey(state, identifier(type).s) ELSE Null
        entity == IF Truthy(id) THEN get(w, type, id) ELSE Undefined
    IN IF ~Truthy(entity) THEN Construct(w, type, id, state, context)
       ELSE Outcome(entity, w, << >>)

\* data.map(s => s instanceof ChildEntity ? s : resolveEntity(ChildEntity, s))
MapResolve(w, items, ChildEntity, context, done) ==
    IF items = << >> THEN Outcome(Arr(done), w, << >>)
    ELSE ResolveRest(IF InstanceOf(w.heap, Head(items), ChildEntity)
                     THEN Outcome(Head(items), w, << >>)
                     ELSE resolveEntity(w, ChildEntity, Head(items), context),
                     Tail(items), ChildEntity, context, done)

\* The array with the value of outcome d before the values of outcome rest.
Prepend(d, rest) ==
    Outcome(Arr(<< d.value >> \o rest.value.items), rest.w, d.calls \o rest.calls)

\* data.map(i => this.deserialize(instance, i, property, context))
MapDeserialize(w, instance, items, property, context) ==
    IF items = << >> THEN Outcome(Arr(<< >>), w, << >>)
    ELSE DeserializeRest(Deserialize(w, instance, Head(items), property, context, TRUE),
                         instance, Tail(items), property, context)

\* deserialize(instance, data, property, context, constructEntity): the
\* converter's deserialize, if one matches, then the conversion by shape.
Deserialize(w, instance, data, property, context, constructEntity) ==
    Converted(FindConverter(propertyConverters, w.heap, instance, property),
              w, instance, data, property, context, constructEntity)

\* deserialize after the converter's step.
ByShape(w, instance, data, property, context, constructEntity) ==
    IF data = IgnoreProperty THEN Outcome(Undefined, w, << >>)
    ELSE IF property.isEntity
    THEN IF ~constructEntity THEN Outcome(data, w, << >>)
         ELSE IF property.isList /\ IsArray(data)
         THEN MapResolve(w, data.items, property.propertyType, context, << >>)
         ELSE IF InstanceOf(w.heap, data, property.propertyType)
         THEN Outcome(data, w, << >>)
         ELSE IF InstanceOfObject(data)
         THEN resolveEntity(w, property.propertyType, data, context)
         ELSE Outcome(Undefined, w, << >>)
    ELSE IF property.isList /\ IsArray(data)
    THEN MapDeserialize(w, instance, data.items, property, context)
    ELSE IF NeedsFormat(property, data)
    THEN Outcome(convertFromString(data), w, << >>)
    ELSE Outcome(data, w, << >>)

\* The first lines of deserialize, given what find returned.
Converted(converter, w, instance, data, property, context, constructEntity) ==
    IF Truthy(converter)
    THEN AfterCalls(<< [converter |-> converter.s, instance |-> instance,
                        property |-> property.name] >>,
                    ByShape(w, instance,
                            ConvDeserialize(converter.s, instance, data, property),
                            property, context, constructEntity))
    ELSE ByShape(w, instance, data, property, context, constructEntity)

\* The constructor's loop after deserialize gave d for the first entry.
InitRest(d, ref, entries, context, calls) ==
    InitFields(SetField(d, ref, Head(entries).key), ref, Tail(entries), context,
               calls \o d.calls)

\* The map over entity data after its callback gave r for the first element.
ResolveRest(r, items, ChildEntity, context, done) ==
    AfterCalls(r.calls, MapResolve(r.w, items, ChildEntity, context, Append(done, r.value)))

\* The map over values after deserialize gave d for the first element.
DeserializeRest(d, instance, items, property, context) ==
    Prepend(d, MapDeserialize(d.w, instance, items, property, context))

RECURSIVE TryResolvers_lastWins(_, _, _, _, _, _)
TryResolvers_lastWins(resolvers, i, h, context, property, value) ==
    IF i > Len(resolvers) THEN [result |-> Undefined, calls |-> << >>]
    ELSE LET result == resolve(resolvers[i], h, context, property, value)
             rest == TryResolvers_lastWins(resolvers, i + 1, h, context, property, value)
         IN [result |-> IF Truthy(rest.result) THEN rest.result ELSE result,
             calls |-> << resolvers[i] >> \o rest.calls]

\* The for loop of resolveValue, from the i-th resolver on; calls lists the
\* resolvers invoked.
RECURSIVE TryResolvers(_, _, _, _, _, _)
TryResolvers(resolvers, i, h, context, property, value) ==
    IF i > Len(resolvers) THEN [result |-> Undefined, calls |-> << >>]
    ELSE LET result == resolve(resolvers[i], h, context, property, value)
         IN IF Truthy(result) THEN [result |-> result, calls |-> << resolvers[i] >>]
            ELSE LET rest == TryResolvers(resolvers, i + 1, h, context, property, value)
                 IN [result |-> rest.result, calls |-> << resolvers[i] >> \o rest.calls]

(***************************************************************************)
(* The state after construction, and the entities of the application.      *)
(***************************************************************************)
Instance(type, id, name, age, tags, manager, reports) ==
    [type |-> type, id |-> id, context |-> "(application)",
     fields |-> [n \in PropNames |->
        CASE n = "id" -> id
          [] n = "name" -> name
          [] n = "age" -> age
          [] n = "tags" -> tags
          [] n = "manager" -> manager
          [] n = "reports" -> reports
          [] n = "label" -> Str("calculated")
          [] OTHER -> Str("human")]]

\* Ann, whose one report is Bob.
SampleHeap ==
    << Instance("Person", Str("p1"), Str("Ann"), Num(41), Arr(<< Str("a"), Str("b") >>),
                Null, Arr(<< Ent(2) >>)),
       Instance("Employee", Str("p2"), Str("Bob"), Num(0), Arr(<< >>),
                Null, Arr(<< >>)) >>

Settings == [force : BOOLEAN, useAliases : BOOLEAN]
DefaultSerializationSettings == [force |-> FALSE, useAliases |-> FALSE]

registries == <<propertyConverters, propertyInjectors, propertyAliases, valueResolvers>>
histories == <<registered, injectorLog, aliasLog, resolverLog>>

Init ==
    /\ propertyConverters = << >>
    /\ propertyInjectors = EmptyMap
    /\ propertyAliases = EmptyMap
    /\ valueResolvers = << >>
    /\ heap = SampleHeap
    /\ pool = {1, 2}
    /\ registered = << >>
    /\ injectorLog = << >>
    /\ aliasLog = << >>
    /\ resolverLog = << >>
    /\ ret = [op |-> "new"]

(***************************************************************************)
(* The operations.                                                         *)
(***************************************************************************)
registerPropertyConverter_push(converter) ==
    /\ Len(propertyConverters) < MaxConverters
    /\ propertyConverters' = Append(propertyConverters, converter)
    /\ registered' = Append(registered, converter)
    /\ ret' = [op |-> "registerPropertyConverter"]
    /\ UNCHANGED <<propertyInjectors, propertyAliases, valueResolvers, heap, pool,
                   injectorLog, aliasLog, resolverLog>>

registerPropertyConverter(converter) ==
    /\ Len(propertyConverters) < MaxConverters
    /\ propertyConverters' = << converter >> \o propertyConverters
    /\ registered' = Append(registered, converter)
    /\ ret' = [op |-> "registerPropertyConverter"]
    /\ UNCHANGED <<propertyInjectors, propertyAliases, valueResolvers, heap, pool,
                   injectorLog, aliasLog, resolverLog>>

registerPropertyInjector(type, injector) ==
    /\ Len(injectorLog) < MaxInjectors
    /\ propertyInjectors' = MapSet(propertyInjectors, type, Append(InjectorsAt(type), injector))
    /\ injectorLog' = Append(injectorLog, [type |-> type, injector |-> injector])
    /\ ret' = [op |-> "registerPropertyInjector"]
    /\ UNCHANGED <<propertyConverters, propertyAliases, valueResolvers, heap, pool,
                   registered, aliasLog, resolverLog>>

registerPropertyAlias(type, alias, propertyName) ==
    /\ Len(aliasLog) < MaxAliases
    /\ propertyAliases' = MapSet(propertyAliases, type,
            MapSet(MapSet(AliasesAt(type), alias, propertyName), propertyName, alias))
    /\ aliasLog' = Append(aliasLog, [type |-> type, alias |-> alias,
                                     propertyName |-> propertyName])
    /\ ret' = [op |-> "registerPropertyAlias"]
    /\ UNCHANGED <<propertyConverters, propertyInjectors, valueResolvers, heap, pool,
                   registered, injectorLog, resolverLog>>

registerValueResolver(resolver) ==
    /\ Len(valueResolvers) < MaxResolvers
    /\ valueResolvers' = Append(valueResolvers, resolver)
    /\ resolverLog' = Append(resolverLog, resolver)
    /\ ret' = [op |-> "registerValueResolver"]
    /\ UNCHANGED <<propertyConverters, propertyInjectors, propertyAliases, heap, pool,
                   registered, injectorLog, aliasLog>>

\* The return of serializePropertyValue with out.
SerializePropertyValueReturn(out, entity, property, value, settings) ==
    /\ ret' = [op |-> "serializePropertyValue", entity |-> entity,
               property |-> property, value |-> value, settings |-> settings,
               result |-> out.result, selected |-> out.selected, calls |-> out.calls]
    /\ UNCHANGED <<registries, heap, pool, histories>>

\* A call of serializePropertyValue(entity, property, value, settings).
SerializePropertyValueCall(entity, property, value, settings) ==
    SerializePropertyValueReturn(
        serializePropertyValue(heap, entity, property, value, settings, << >>),
        entity, property, value, settings)

\* A call of serialize(entity, settings).
SerializeCall(entity, settings) ==
    /\ ret' = [op |-> "serialize", entity |-> entity, settings |-> settings,
               result |-> Serialize(heap, entity, settings, << >>)]
    /\ UNCHANGED <<registries, heap, pool, histories>>

\* Marks data that did not come from a serialize call.
Given == [entity |-> 0, property |-> "(given)"]

\* The return of deserialize with out, the instances it constructed being kept.
DeserializeReturn(out, instance, data, property, constructEntity, from) ==
    /\ Len(out.w.heap) <= MaxHeap
    /\ heap' = out.w.heap
    /\ pool' = out.w.pool
    /\ ret' = [op |-> "deserialize", instance |-> instance, data |-> data,
               property |-> property, constructEntity |-> constructEntity,
               from |-> from, value |-> out.value, calls |-> out.calls,
               before |-> World(heap, pool)]
    /\ UNCHANGED <<registries, histories>>

\* A call of deserialize(instance, data, property, context, constructEntity);
\* from names where the data came from, when it is the last serialize's output.
DeserializeCall(instance, data, property, constructEntity, from) ==
    DeserializeReturn(
        Deserialize(World(heap, pool), instance, data, property, "ctx", constructEntity),
        instance, data, property, constructEntity, from)

\* A call of resolveValue(context, property, value).
ResolveValueCall(context, property, value) ==
    LET out == TryResolvers(valueResolvers, 1, heap, context, property, value)
    IN /\ ret' = [op |-> "resolveValue", context |-> context, property |-> property,
                  value |-> value, result |-> out.result, calls |-> out.calls]
       /\ UNCHANGED <<registries, heap, pool, histories>>

(***************************************************************************)
(* The converter chain: registrations, serializePropertyValue, deserialize.*)
(***************************************************************************)
Refs == 1..Len(heap)
Property(n) == getProperty("Person", n)

\* Plain data handed to deserialize, for each property.
PlainData(n) ==
    CASE n = "tags" -> { Arr(<< Str("7"), Str("0") >>), Str("7") }
      [] n = "manager" -> { Obj(<< Entry("id", Str("p9")), Entry("name", Str("Cy")) >>),
                            Str("7") }
      [] OTHER -> { Str("7"), Obj(<< Entry("stamp", Str("41")) >>) }

NextConverters ==
    \/ \E c \in Converters : registerPropertyConverter(c)
    \/ \E e \in {1, 2}, n \in {"name", "age", "tags", "manager"}, s \in Settings :
          SerializePropertyValueCall(e, Property(n), PropValue(heap, e, Property(n)), s)
    \/ \E e \in {1, 2}, n \in {"name", "age", "tags", "manager"} :
          \E d \in PlainData(n) : DeserializeCall(e, d, Property(n), TRUE, Given)

SpecConverters == Init /\ [][NextConverters]_vars

\* The k-th largest element of a set of numbers.
KthLargest(S, k) == CHOOSE i \in S : Cardinality({j \in S : j >= i}) = k

\* C1: serializePropertyValue returns, before the alias step, the result of the
\* most recently registered converter whose shouldConvert is true and whose
\* result is accepted (any result without force, any but IgnoreProperty with
\* force), else the default converter's result; and serialize is invoked on
\* exactly the matching converters from the most recent one down to the
\* accepted one, so an earlier converter is consulted only when every later
\* one did not match or returned IgnoreProperty under force.
C1_MostRecentAcceptedConverterDecides ==
    ret.op = "serializePropertyValue" =>
        LET e == ret.entity
            p == ret.property
            s == ret.settings
            Out(i) == ConvSerialize(registered[i], heap, e, ret.value, p, s, << >>)
            matching == {i \in 1..Len(registered) : shouldConvert(registered[i], heap, e, p)}
            accepted == {i \in matching : ~s.force \/ Out(i) # IgnoreProperty}
            consulted == {i \in matching : accepted = {} \/ i >= Max(accepted)}
        IN /\ ret.selected = IF accepted = {}
                             THEN DefaultSerialize(heap, e, ret.value, p, s, << >>)
                             ELSE Out(Max(accepted))
           /\ Len(ret.calls) = Cardinality(consulted)
           /\ \A k \in 1..Len(ret.calls) :
                  ret.calls[k] = registered[KthLargest(consulted, k)]

\* C1's case: under force the later converter returned IgnoreProperty and the
\* earlier one decided.
C1_Witness ==
    /\ ret.op = "serializePropertyValue"
    /\ ret.settings.force
    /\ Len(registered) = 2
    /\ ret.calls = << registered[2], registered[1] >>
    /\ ret.selected # IgnoreProperty
    /\ registered[1] # registered[2]

\* The type-directed conversion of a value of a property that holds no entity.
PlainConversion(property, data) ==
    IF property.format /\ IsString(data) /\ data.s # "" /\ property.propertyType # "String"
    THEN convertFromString(data) ELSE data

\* C8: every deserialize call applies only the deserialize of the most recently
\* registered converter whose shouldConvert is true; when that one returns
\* IgnoreProperty the call yields undefined and looks up and constructs nothing;
\* when no converter matches, the raw data is converted unmodified.
C8_DeserializeFirstMatchOnly ==
    ret.op = "deserialize" =>
        LET Matching(inst, prop) ==
                {i \in 1..Len(registered) : shouldConvert(registered[i], heap, inst, prop)}
            top == Matching(ret.instance, ret.property)
        IN /\ \A k \in 1..Len(ret.calls) :
                  LET c == ret.calls[k]
                      m == Matching(c.instance, getProperty(heap[c.instance].type, c.property))
                  IN m # {} /\ c.converter = registered[Max(m)]
           /\ top # {} =>
                  /\ Len(ret.calls) >= 1
                  /\ ret.calls[1] = [converter |-> registered[Max(top)],
                                     instance |-> ret.instance,
                                     property |-> ret.property.name]
                  /\ ConvDeserialize(registered[Max(top)], ret.instance, ret.data,
                                     ret.property) = IgnoreProperty
                        => /\ ret.value = Undefined
                           /\ ret.calls = << ret.calls[1] >>
                           /\ World(heap, pool) = ret.before
           /\ top = {} /\ ~ret.property.isEntity =>
                  /\ ret.calls = << >>
                  /\ ret.value = IF ret.property.isList /\ IsArray(ret.data)
                                 THEN Arr([i \in 1..Len(ret.data.items) |->
                                            PlainConversion(ret.property, ret.data.items[i])])
                                 ELSE PlainConversion(ret.property, ret.data)

\* C8's case: the most recent matching converter returned IgnoreProperty while an
\* earlier registered converter matches too, and no value was produced.
C8_Witness ==
    /\ ret.op = "deserialize"
    /\ Len(registered) = 2
    /\ registered[2] = "Secret"
    /\ registered[1] = "Base"
    /\ ret.property.name = "manager"
    /\ IsPlainObject(ret.data)
    /\ ret.value = Undefined
    /\ Len(ret.calls) = 1

(***************************************************************************)
(* The alias registry: registrations under a type and under its full name, *)
(* and serializePropertyValue with useAliases.                             *)
(***************************************************************************)
AliasHandles == {TypeHandle("Person"), NameHandle(fullName("Person")), TypeHandle("Employee")}

NextAliases ==
    \/ \E t \in AliasHandles, a \in {"ext", "name"}, n \in {"name", "age"} :
          registerPropertyAlias(t, a, n)
    \/ registerPropertyConverter("Flat")
    \/ \E n \in {"name", "age"}, u \in BOOLEAN :
          SerializePropertyValueCall(1, Property(n), PropValue(heap, 1, Property(n)),
                                     [force |-> FALSE, useAliases |-> u])

SpecAliases == Init /\ [][NextAliases]_vars

\* The writes aliases[key] = value that the logged registrations under the handles
\* of a set made, in order: each call writes alias -> name, then name -> alias.
RECURSIVE AliasWrites(_, _)
AliasWrites(log, hs) ==
    IF log = << >> THEN << >>
    ELSE (IF Head(log).type \in hs
          THEN << <<Head(log).alias, Head(log).propertyName>>,
                  <<Head(log).propertyName, Head(log).alias>> >>
          ELSE << >>) \o AliasWrites(Tail(log), hs)

Written(ws, k) == \E i \in 1..Len(ws) : ws[i][1] = k
LastWritten(ws, k) == ws[Max({i \in 1..Len(ws) : ws[i][1] = k})][2]

\* The aliases of a type as one scope: every write under either handle, in order.
OneScope(type) ==
    LET ws == AliasWrites(aliasLog, {TypeHandle(type), NameHandle(fullName(type))})
    IN [k \in {ws[i][1] : i \in 1..Len(ws)} |-> LastWritten(ws, k)]

\* C7 as stated: getPropertyAliases(T) is the mapping the registrations build
\* whichever handle each used, so a full-name entry never overrides a type-object
\* entry of the same key out of registration order.
C7_HandlesFormOneScope ==
    \A type \in Types : getPropertyAliases(type) = OneScope(type)

\* C7: getPropertyAliases(T) holds every key written under either handle;
\* a key written under the full-name string has the value last written under the
\* string, whatever was written under the type object and whenever; any other key
\* has the value last written under the type object.
C7_FullNameEntriesOverride ==
    \A type \in Types :
        LET byType == AliasWrites(aliasLog, {TypeHandle(type)})
            byName == AliasWrites(aliasLog, {NameHandle(fullName(type))})
            merged == getPropertyAliases(type)
        IN /\ \A k \in {"ext", "name", "age"} :
                  k \in DOMAIN merged <=> (Written(byType, k) \/ Written(byName, k))
           /\ \A k \in DOMAIN merged :
                  merged[k] = IF Written(byName, k) THEN LastWritten(byName, k)
                              ELSE LastWritten(byType, k)

\* C7's case: one key registered under the type object and, with another value,
\* under the full-name string, the type object's registration being the later.
C7_Witness ==
    /\ Len(aliasLog) = 2
    /\ aliasLog[1].type = NameHandle(fullName("Person"))
    /\ aliasLog[2].type = TypeHandle("Person")
    /\ aliasLog[1].alias = aliasLog[2].alias
    /\ aliasLog[1].propertyName # aliasLog[2].propertyName
    /\ getPropertyAliases("Person")[aliasLog[1].alias] = aliasLog[1].propertyName

\* The alias registrations made for a property's name on its containing type.
AliasesRegisteredFor(property) ==
    {aliasLog[i].alias : i \in {j \in 1..Len(aliasLog) :
        /\ aliasLog[j].propertyName = property.name
        /\ aliasLog[j].type \in {TypeHandle(property.containingType),
                                 NameHandle(fullName(property.containingType))}}}

\* C6 as stated: with useAliases and a result that is not IgnoreProperty the key
\* is an alias registered for the property on its containing type, and when none
\* was registered the key is the one the selected converter produced; without
\* useAliases, and for IgnoreProperty, the result is the selected one.
C6_KeyIsRegisteredAliasOrUnchanged ==
    ret.op = "serializePropertyValue" =>
        IF ret.settings.useAliases /\ ret.selected # IgnoreProperty
        THEN /\ ret.result.value = ret.selected.value
             /\ IF AliasesRegisteredFor(ret.property) # {}
                THEN ret.result.key \in AliasesRegisteredFor(ret.property)
                ELSE ret.result.key = ret.selected.key
        ELSE ret.result = ret.selected

\* C6: with useAliases and a result that is not IgnoreProperty the key is
\* the entry last written under the property's name in the containing type's
\* two-way alias mapping (under the full-name string if any was, else under the
\* type object): the alias of the property, or the name of the property that the
\* property's own name was registered as an alias of; with no such entry the key
\* is the one the selected converter produced.
C6_KeyIsEntryUnderPropertyName ==
    ret.op = "serializePropertyValue" =>
        IF ret.settings.useAliases /\ ret.selected # IgnoreProperty
        THEN LET type == ret.property.containingType
                 byType == AliasWrites(aliasLog, {TypeHandle(type)})
                 byName == AliasWrites(aliasLog, {NameHandle(fullName(type))})
                 n == ret.property.name
             IN /\ ret.result.value = ret.selected.value
                /\ ret.result.key =
                      IF Written(byName, n) THEN LastWritten(byName, n)
                      ELSE IF Written(byType, n) THEN LastWritten(byType, n)
                      ELSE ret.selected.key
        ELSE ret.result = ret.selected

\* C6's case: the converter produced another key than the property's name and the
\* alias registered for the property replaced it.
C6_Witness ==
    /\ ret.op = "serializePropertyValue"
    /\ ret.settings.useAliases
    /\ ret.property.name = "name"
    /\ ret.selected.key = "data"
    /\ ret.result.key = "ext"
    /\ "ext" \in AliasesRegisteredFor(ret.property)

(***************************************************************************)
(* The injector registry and serialize.                                    *)
(***************************************************************************)
NextInjectors ==
    \/ \E t \in Handles, i \in Injectors : registerPropertyInjector(t, i)
    \/ \E e \in {1, 2} : SerializeCall(e, DefaultSerializationSettings)

SpecInjectors == Init /\ [][NextInjectors]_vars

\* The keys of a serialized object, in the order they were written.
KeysOf(object) == [i \in 1..Len(object.pairs) |-> object.pairs[i].key]

\* The pairs of a sequence that serialize writes: not null, not IgnoreProperty.
Written_Pairs(pairs) ==
    LET Live(pair) == Truthy(pair) /\ pair # IgnoreProperty
    IN SelectSeq(pairs, Live)

\* The injectors the logged registrations under the handles of a set named, in
\* registration order.
RECURSIVE RegisteredInjectors(_, _)
RegisteredInjectors(log, hs) ==
    IF log = << >> THEN << >>
    ELSE (IF Head(log).type \in hs THEN << Head(log).injector >> ELSE << >>)
            \o RegisteredInjectors(Tail(log), hs)

\* Per level of the base-type chain, most derived first: the injectors registered
\* for the level under either handle, in registration order.
RECURSIVE InRegistrationOrder(_)
InRegistrationOrder(chain) ==
    IF chain = << >> THEN << >>
    ELSE RegisteredInjectors(injectorLog,
                             {TypeHandle(Head(chain)), NameHandle(fullName(Head(chain)))})
            \o InRegistrationOrder(Tail(chain))

\* Per level of the base-type chain, most derived first: the injectors registered
\* under the type object, then those registered under the full-name string.
RECURSIVE TypeObjectThenFullName(_)
TypeObjectThenFullName(chain) ==
    IF chain = << >> THEN << >>
    ELSE RegisteredInjectors(injectorLog, {TypeHandle(Head(chain))})
            \o RegisteredInjectors(injectorLog, {NameHandle(fullName(Head(chain)))})
            \o TypeObjectThenFullName(Tail(chain))

\* The names of the declared properties that are neither calculated nor constant.
DeclaredKeys(type) ==
    LET ps == properties(type)
        Kept(i) == ~ps[i].isCalculated /\ ~ps[i].isConstant
        RECURSIVE From(_)
        From(i) == IF i > Len(ps) THEN << >>
                   ELSE (IF Kept(i) THEN << ps[i].name >> ELSE << >>) \o From(i + 1)
    IN From(1)

\* The keys a successful serialize must show for injectors applied in an order.
ExpectedKeys(order, entity) ==
    KeysOf(Obj(Written_Pairs(FlatMapInject(order, heap, entity))))
        \o DeclaredKeys(heap[entity].type)

\* C3 as stated: a successful serialize writes the keys of the injectors of the
\* entity's type and its base types first (most derived level first, registration
\* order within a level), then the declared property names in declared order
\* without the calculated and constant ones.
C3_InjectedKeysInRegistrationOrder ==
    ret.op = "serialize" /\ ~IsThrow(ret.result) =>
        KeysOf(ret.result) =
            ExpectedKeys(InRegistrationOrder(TypeChain(heap[ret.entity].type)), ret.entity)

\* C3: a successful serialize writes the keys of the injectors of the entity's
\* type and its base types first, most derived level first, and within a level
\* the injectors registered under the type object before those registered under
\* the full-name string, each group in registration order; then the declared
\* property names in declared order without the calculated and constant ones.
C3_InjectedKeysTypeObjectFirst ==
    ret.op = "serialize" /\ ~IsThrow(ret.result) =>
        KeysOf(ret.result) =
            ExpectedKeys(TypeObjectThenFullName(TypeChain(heap[ret.entity].type)), ret.entity)

\* C3's case: an Employee serialized after one injector was registered for
\* Employee under the full-name string and then another under the type object;
\* the keys of the second come first.
C3_Witness ==
    /\ ret.op = "serialize"
    /\ ~IsThrow(ret.result)
    /\ ret.entity = 2
    /\ Len(injectorLog) = 2
    /\ injectorLog[1].type = NameHandle(fullName("Employee"))
    /\ injectorLog[2].type = TypeHandle("Employee")
    /\ injectorLog[1].injector = "TypeTag"
    /\ injectorLog[2].injector = "Audit"
    /\ SubSeq(KeysOf(ret.result), 1, 2) = << "$rev", "$type" >>

(***************************************************************************)
(* Key collisions in serialize: injectors, a converter and aliases that    *)
(* can each bring two pairs to one key.                                    *)
(***************************************************************************)
NextCollisions ==
    \/ \E t \in {TypeHandle("Person"), NameHandle(fullName("Base"))},
          i \in {"Audit", "Clash"} : registerPropertyInjector(t, i)
    \/ registerPropertyConverter("Flat")
    \/ \E n \in {"name", "age"} : registerPropertyAlias(TypeHandle("Person"), "ext", n)
    \/ \E e \in {1, 2}, u \in BOOLEAN :
          SerializeCall(e, [force |-> FALSE, useAliases |-> u])

SpecCollisions == Init /\ [][NextCollisions]_vars

\* The combined sequence of serialize: the injected pairs, then one result per
\* declared property that is neither calculated nor constant.
CombinedPairs(entity, settings) ==
    LET type == heap[entity].type
        props == SerializedProperties(type)
    IN FlatMapInject(getPropertyInjectors(type), heap, entity)
        \o [i \in 1..Len(props) |->
               serializePropertyValue(heap, entity, props[i],
                   PropValue(heap, entity, props[i]), settings, << >>).result]

NextResolvers ==
    \/ \E r \in Resolvers : registerValueResolver(r)
    \/ registerPropertyConverter("Stamp")
    \/ \E e \in {1, 2}, n \in {"name", "age"} :
          ResolveValueCall(e, Property(n), PropValue(heap, e, Property(n)))

SpecResolvers == Init /\ [][NextResolvers]_vars

\* What the last resolveValue call must have done, given the resolvers in
\* registration order.
ResolvedInRegistrationOrder ==
    ret.op = "resolveValue" =>
        LET Out(i) == resolve(resolverLog[i], heap, ret.context, ret.property, ret.value)
            hits == {i \in 1..Len(resolverLog) : Out(i) # Undefined}
            last == IF hits = {} THEN Len(resolverLog) ELSE Min(hits)
        IN /\ ret.calls = SubSeq(resolverLog, 1, last)
           /\ ret.result = IF hits = {} THEN Undefined ELSE Out(Min(hits))

\* C9: resolveValue invokes the resolvers in registration order up to and
\* including the first that returns a result, returns that result as the resolver
\* gave it (converters registered or not), yields nothing when none returns a
\* result, and changes no registry.
C9_FirstResolverResultWins ==
    /\ []ResolvedInRegistrationOrder
    /\ [][ret'.op = "resolveValue" => UNCHANGED registries]_vars

\* C9's case: the first registered resolver returned nothing, the second returned
\* a result, and the third was not invoked, with a converter registered.
C9_Witness ==
    /\ ret.op = "resolveValue"
    /\ Len(resolverLog) = 3
    /\ Len(ret.calls) = 2
    /\ ret.result # Undefined
    /\ resolve(resolverLog[3], heap, ret.context, ret.property, ret.value) # Undefined
    /\ resolve(resolverLog[3], heap, ret.context, ret.property, ret.value) # ret.result
    /\ propertyConverters # << >>

(***************************************************************************)
(* Entity graphs: serialize and deserialize with nothing registered.       *)
(***************************************************************************)
\* Two entities whose references to each other (and to themselves) vary.
GraphHeaps ==
    { << Instance("Person", Str("p1"), Str("Ann"), Num(41),
                  Arr(<< Str("a"), Str("b") >>), m1, Arr(r1)),
         Instance("Employee", Str("p2"), Null, Num(0), t2, m2, Arr(r2)) >> :
        m1 \in {Null, Ent(2)}, r1 \in {<< >>, << Ent(2) >>, << Ent(2), Ent(2) >>},
        m2 \in {Null, Ent(1)}, r2 \in {<< >>, << Ent(1) >>},
        t2 \in {Null, Arr(<< >>)} }

InitGraph ==
    /\ propertyConverters = << >>
    /\ propertyInjectors = EmptyMap
    /\ propertyAliases = EmptyMap
    /\ valueResolvers = << >>
    /\ heap \in GraphHeaps
    /\ pool \in {{1, 2}, {}}
    /\ registered = << >>
    /\ injectorLog = << >>
    /\ aliasLog = << >>
    /\ resolverLog = << >>
    /\ ret = [op |-> "new"]

\* Plain data referring to a Person by identifier.
Reference(id) == Obj(<< Entry("id", id), Entry("name", Str("Cy")) >>)
Identifiers == {Str("p9"), Str("p1"), Num(0)}

NextGraph ==
    \/ \E e \in {1, 2} : SerializeCall(e, DefaultSerializationSettings)
    \/ \E e \in {1, 2}, n \in {"id", "name", "age", "tags", "manager", "reports"} :
          /\ ret.op = "serialize"
          /\ IsPlainObject(ret.result)
          /\ DeserializeCall(e, GetKey(ret.result, n), Property(n), TRUE,
                             [entity |-> ret.entity, property |-> n])
    \/ \E id \in Identifiers :
          \/ DeserializeCall(1, Arr(<< Reference(id), Reference(id) >>),
                             Property("reports"), TRUE, Given)
          \/ DeserializeCall(1, Reference(id), Property("manager"), TRUE, Given)
    \/ DeserializeCall(1, Reference(Str("p9")), Property("manager"), FALSE, Given)

SpecGraph == InitGraph /\ [][NextGraph]_vars

\* C10: serialize returns an object or raises the duplicate-key error, whatever
\* the references between the entities, cycles included.
C10_SerializeReturnsOrDuplicateKey ==
    ret.op = "serialize" =>
        \/ IsPlainObject(ret.result)
        \/ ret.result = Throw("Error: encountered twice")

\* Whether two values carry the same data: entities field by field, through
\* their references; lists element by element.
RECURSIVE SameValue(_, _, _, _)
SameValue(h1, v1, h2, v2) ==
    IF IsEntity(v1)
    THEN /\ IsEntity(v2)
         /\ \A n \in {"id", "name", "age", "tags", "manager", "reports"} :
                SameValue(h1, h1[v1.ref].fields[n], h2, h2[v2.ref].fields[n])
    ELSE IF IsArray(v1)
    THEN /\ IsArray(v2)
         /\ Len(v2.items) = Len(v1.items)
         /\ \A i \in 1..Len(v1.items) : SameValue(h1, v1.items[i], h2, v2.items[i])
    ELSE v2 = v1

\* The last call deserialized a property of the object serialize returned for
\* an entity.
RoundTrip == ret.op = "deserialize" /\ ret.from # Given
Original == ret.before.heap[ret.from.entity].fields[ret.from.property]

\* C4 as stated: deserialize of each serialized property reproduces the value
\* the property has on the entity, a null value included.
C4_RoundTripReproducesEveryValue ==
    RoundTrip => SameValue(ret.before.heap, Original, heap, ret.value)

\* Whether deserialize rebuilt a value: as SameValue, but an entity whose
\* identifier was already pooled in world w comes back as that pooled instance,
\* whatever its fields hold.
RECURSIVE Rebuilt(_, _, _, _)
Rebuilt(w, v1, h2, v2) ==
    IF IsEntity(v1)
    THEN /\ IsEntity(v2)
         /\ IF v2.ref \in w.pool
            THEN w.heap[v2.ref].id = w.heap[v1.ref].id
            ELSE /\ v2.ref > Len(w.heap)
                 /\ \A n \in {"id", "name", "age", "tags", "manager", "reports"} :
                        Rebuilt(w, w.heap[v1.ref].fields[n], h2, h2[v2.ref].fields[n])
    ELSE IF IsArray(v1)
    THEN /\ IsArray(v2)
         /\ Len(v2.items) = Len(v1.items)
         /\ \A i \in 1..Len(v1.items) : Rebuilt(w, v1.items[i], h2, v2.items[i])
    ELSE v2 = v1

\* C4: when serialize returns an object, deserialize of each serialized property
\* reproduces the property's value (scalars, lists of scalars, null and empty
\* lists, and referenced entities field by field), except that a null entity
\* reference produces no value, and that a reference whose identifier is already
\* pooled comes back as the pooled instance.
C4_RoundTripReproducesValueOrSkipsNullReference ==
    RoundTrip =>
        IF ret.property.isEntity /\ Original = Null
        THEN ret.value = Undefined
        ELSE Rebuilt(ret.before, Original, heap, ret.value)

\* C4's case: a list of references to an entity that is not pooled came back as
\* newly constructed entities with the same field values.
C4_Witness ==
    /\ RoundTrip
    /\ ret.from.property = "reports"
    /\ IsArray(Original) /\ Original.items # << >>
    /\ IsArray(ret.value)
    /\ \A i \in 1..Len(ret.value.items) : ret.value.items[i].ref > Len(ret.before.heap)
    /\ SameValue(ret.before.heap, Original, heap, ret.value)

\* C5: in a list of references deserialized with constructEntity, two elements
\* that carry the same identifier, whatever its value, become the same instance.
C5_SameIdentifierSameInstance ==
    (ret.op = "deserialize" /\ ret.constructEntity /\ ret.property.isEntity
        /\ ret.property.isList /\ IsArray(ret.data)) =>
        \A i, j \in 1..Len(ret.data.items) :
            LET id(k) == GetKey(ret.data.items[k], "id")
            IN (id(i) \notin {Undefined, Null} /\ id(j) = id(i))
                  => ret.value.items[j] = ret.value.items[i]

(***************************************************************************)
(* The serializer as a whole: every operation, from the state after        *)
(* construction.  The specifications above each take the operations of one *)
(* part of it.                                                             *)
(***************************************************************************)
Next ==
    \/ NextConverters
    \/ NextAliases
    \/ NextInjectors
    \/ NextCollisions
    \/ NextResolvers
    \/ NextGraph

Spec == Init /\ [][Next]_vars

=============================================================================
